---- MODULE Spec2Model ----
(***************************************************************************)
(* Model of the attribution pipeline of marketing-models                   *)
(*   attribution/src/python/functions.py   (chain builder, merger,         *)
(*                                          concatenator, channel stats)   *)
(*   attribution/src/python/attribution.py (main: the order of the stages) *)
(* and of the time features of marketing_mix_model/src/functions.py.       *)
(*                                                                         *)
(* Timestamps are integers counted in ticks, TicksPerDay ticks a day; a    *)
(* date is the number of the day.  A pandas DataFrame is a sequence of     *)
(* records, one record per row, in row order.                              *)
(***************************************************************************)
EXTENDS Integers, Sequences, FiniteSets, TLC

VARIABLES
    pc,                 \* position of main(): start, built, merged, preproc, done, aborted
                        \* (the report: mmm_start, mmm_prepared, mmm_filtered, mmm_failed)
    CONCAT_CHAINS,      \* ARGS.concat_chains
    events,             \* the Event Table as read (before main sorts it)
    chains_df,          \* output of chain_events_concatenation
    merged_chains_df,   \* output of chain_merge
    concat_chains_df,   \* output of chain_concatenation
    preproc_chains_df,  \* the final chain set
    channels_df,        \* compute_channel_stats: its touchpoint rows after line 315
    channel_stats,      \* output of compute_channel_stats
    preproc_data,       \* data_preprocessing_report.py: the weekly input rows
    mmm_perimeter,      \* country_config['mmm_perimeter']: (start_date, end_date)
    years_map           \* country_config['years_map'], in the order of its keys

vars == <<pc, CONCAT_CHAINS, events, chains_df, merged_chains_df,
          concat_chains_df, preproc_chains_df, channels_df, channel_stats,
          preproc_data, mmm_perimeter, years_map>>

-----------------------------------------------------------------------------
(* Program constants *)

MERGE_PURCH_DAYS_TH == 3
CHAIN_CONCAT_DAYS_TH == 10

(* Bounds of the model *)

TicksPerDay == 2        \* resolution of a timestamp
MaxSessions == 3        \* sessions of an Event Table
MaxCustomers == 2       \* customers
MaxTs == 2              \* last timestamp of an Event Table
MaxChains == 3          \* chains of a chain set given to the Merger and the Concatenator
MaxDay == 11            \* last purchase date of such a chain set
MaxLag == 1             \* days between a chain's first event and its purchase
MaxStatChains == 2      \* chains of a chain set given to the Aggregator
MaxChainLen == 3        \* touchpoints of such a chain
MaxSpan == 62           \* last day number of a chain's dates
MaxWeeks == 2           \* rows of the weekly input data
MaxWeek == 3            \* last week number
MaxYears == 2           \* entries of years_map

NoFrame == <<>>         \* a DataFrame variable that has not been assigned yet

-----------------------------------------------------------------------------
(* Small helpers *)

\* x.date() of a timestamp
Date(ts) == ts \div TicksPerDay

Range(s) == {s[i] : i \in 1..Len(s)}

RECURSIVE SumSeq(_)
SumSeq(s) == IF s = <<>> THEN 0 ELSE Head(s) + SumSeq(Tail(s))

RECURSIVE Flatten(_)
\* python sum of lists: the concatenation of a sequence of sequences
Flatten(ss) == IF ss = <<>> THEN <<>> ELSE Head(ss) \o Flatten(Tail(ss))

MinOf(S) == CHOOSE x \in S : \A y \in S : x <= y
MaxOf(S) == CHOOSE x \in S : \A y \in S : x >= y

\* the pairs of row numbers of df
RowPairs(df) == (1..Len(df)) \X (1..Len(df))

\* DataFrame.sort_values on several columns: a stable sort.  before is the set
\* of the pairs <<j, i>> such that the sort keys of row j are strictly before
\* those of row i; rows with equal keys keep their order.
SortValues(df, before) ==
    LET n == Len(df)
        Ahead(j, i) == <<j, i>> \in before \/ (<<i, j>> \notin before /\ j < i)
        At(p) == CHOOSE i \in 1..n : Cardinality({j \in 1..n : Ahead(j, i)}) = p - 1
    IN  [p \in 1..n |-> df[At(p)]]

-----------------------------------------------------------------------------
(* The Event Table *)

\* the channel labels of the event rows of session s, one label per row
SessionChannels(s) ==
    CASE s % 3 = 1 -> <<"Search", "Display">>
      [] s % 3 = 2 -> <<"Email">>
      [] OTHER     -> <<"Display", "Email">>

\* the revenue of session s
SessionRevenue(s) == IF s % 2 = 1 THEN 100 ELSE 50

\* the event rows of session s: the first row is the session's first event,
\* the last row of a session of several rows is its last event
SessionRows(s, cust, first, last, purch) ==
    LET labels == SessionChannels(s)
    IN  [r \in 1..Len(labels) |->
            [customer_id           |-> cust,
             session_id            |-> s,
             channel_group         |-> labels[r],
             first_event_timestamp |-> first,
             event_timestamp       |-> IF r = 1 THEN first ELSE last,
             last_event_timestamp  |-> last,
             f_purchased           |-> purch,
             session_revenue       |-> SessionRevenue(s)]]

\* the Event Table of n sessions, session s with customer cust[s], first and
\* last event at first[s] and last[s], purchase flag purch[s]
EventTable(n, cust, first, last, purch) ==
    Flatten([s \in 1..n |-> SessionRows(s, cust[s], first[s], last[s], purch[s])])

-----------------------------------------------------------------------------
(* attribution.py line 73: events.sort_values([customer, first_event_timestamp, event_timestamp]) *)

EventBefore(a, b) ==
    \/ a.customer_id < b.customer_id
    \/ /\ a.customer_id = b.customer_id
       /\ \/ a.first_event_timestamp < b.first_event_timestamp
          \/ /\ a.first_event_timestamp = b.first_event_timestamp
             /\ a.event_timestamp < b.event_timestamp

SortEvents(ev) == SortValues(ev, {p \in RowPairs(ev) : EventBefore(ev[p[1]], ev[p[2]])})

-----------------------------------------------------------------------------
(* functions.py chain_events_concatenation *)

FINISH == 0     \* the 'FINISH' marker: no session has this id

\* conversion_id = session_id + '.' + last_event_date.strftime('%Y%m%d')
ConversionId(row) == <<row.session_id, Date(row.last_event_timestamp)>>

\* the accumulator kept after an emission ("comment if you want to keep tp
\* corresponding to previous purchases")
AfterEmissionKept(conv_chain) == conv_chain

\* line 164, "reset chain": conv_chain = [] after an emission
AfterEmission(conv_chain) == <<>>

\* the loop "for k in range(nr_rows)" over one customer's rows; st is the
\* loop state: j, conv_chain, first_event (of conv_chain_detail), emitted chains
RECURSIVE ScanCustomer(_, _, _)
ScanCustomer(customer_df, k, st) ==
    IF k > Len(customer_df) THEN st.emitted
    ELSE
      LET row == customer_df[k]
          current_session_id == row.session_id
          next_session_id == IF k < Len(customer_df) THEN customer_df[k + 1].session_id ELSE FINISH
          conv_chain == Append(st.conv_chain, row.channel_group)
          first_event == IF st.j = 0 THEN Date(row.first_event_timestamp) ELSE st.first_event
          closes == row.f_purchased = 1 /\ current_session_id # next_session_id
          detail == [customer_id          |-> row.customer_id,
                     conversion_id        |-> ConversionId(row),
                     conversion_timestamp |-> row.last_event_timestamp,
                     chain                |-> conv_chain,
                     first_event          |-> first_event,
                     purchase_date        |-> Date(row.last_event_timestamp),
                     purchase_value       |-> row.session_revenue]
      IN  IF closes
          THEN ScanCustomer(customer_df, k + 1,
                   [j |-> 0, conv_chain |-> AfterEmission(conv_chain), first_event |-> 0,
                    emitted |-> Append(st.emitted, detail)])
          ELSE ScanCustomer(customer_df, k + 1,
                   [j |-> 1, conv_chain |-> conv_chain, first_event |-> first_event,
                    emitted |-> st.emitted])

\* the chains of one customer
CustomerChains(events_df, c) ==
    ScanCustomer(SelectSeq(events_df, LAMBDA r : r.customer_id = c), 1,
                 [j |-> 0, conv_chain |-> <<>>, first_event |-> 0, emitted |-> <<>>])

\* "for _, customer_df in events_df.groupby('customer_id')": groups in
\* increasing customer_id
RECURSIVE ScanCustomers(_, _)
ScanCustomers(events_df, c) ==
    IF c > MaxCustomers THEN <<>>
    ELSE CustomerChains(events_df, c) \o ScanCustomers(events_df, c + 1)

\* the scan with conv_chain initialised once, before the loop over customers
ConvChainsOneScan(events_df) ==
    ScanCustomer(events_df, 1,
                 [j |-> 0, conv_chain |-> <<>>, first_event |-> 0, emitted |-> <<>>])

\* conv_chains.values() at line 172
ConvChains(events_df) == ScanCustomers(events_df, 1)

ConvertingSessions(events_df) ==
    {events_df[i].session_id : i \in {i \in 1..Len(events_df) : events_df[i].f_purchased = 1}}

ConversionIds(df) == {df[i].conversion_id : i \in 1..Len(df)}

\* line 173 raises KeyError on a frame without rows (it has no columns);
\* lines 174-175 are the assertions
BuilderReturns(events_df) ==
    LET out == ConvChains(events_df)
    IN  /\ out # <<>>
        /\ Cardinality(ConvertingSessions(events_df)) = Len(out)
        /\ Len(out) = Cardinality(ConversionIds(out))

-----------------------------------------------------------------------------
(* functions.py chain_merge *)

\* sort_values(['customer_id', 'conversion_timestamp'], ascending=(True, True))
MergeBefore(a, b) ==
    \/ a.customer_id < b.customer_id
    \/ /\ a.customer_id = b.customer_id
       /\ a.conversion_timestamp < b.conversion_timestamp

\* group.at[_, 'rank'] = rank
WithRank(row, rank) ==
    [customer_id          |-> row.customer_id,
     conversion_id        |-> row.conversion_id,
     conversion_timestamp |-> row.conversion_timestamp,
     chain                |-> row.chain,
     first_event          |-> row.first_event,
     purchase_date        |-> row.purchase_date,
     purchase_value       |-> row.purchase_value,
     rank                 |-> rank]

\* NewRank with the threshold itself starting a new group
NewRankAtThreshold(purchase_date, current_date) ==
    purchase_date - current_date >= MERGE_PURCH_DAYS_TH

\* a new merge group starts when the gap to current_date exceeds the threshold
NewRank(purchase_date, current_date) ==
    purchase_date - current_date > MERGE_PURCH_DAYS_TH

\* the loop of calculate_rank from row k on; current_date is the purchase
\* date of the row before
RECURSIVE RankLoop(_, _, _, _)
RankLoop(group, k, rank, current_date) ==
    IF k > Len(group) THEN <<>>
    ELSE LET row == group[k]
             r == IF NewRank(row.purchase_date, current_date) THEN rank + 1 ELSE rank
         IN  <<WithRank(row, r)>> \o RankLoop(group, k + 1, r, row.purchase_date)

\* the loop with current_date moved only when a new group starts
RECURSIVE RankLoopAnchored(_, _, _, _)
RankLoopAnchored(group, k, rank, current_date) ==
    IF k > Len(group) THEN <<>>
    ELSE LET row == group[k]
             new == NewRank(row.purchase_date, current_date)
             r == IF new THEN rank + 1 ELSE rank
         IN  <<WithRank(row, r)>>
                 \o RankLoopAnchored(group, k + 1, r, IF new THEN row.purchase_date ELSE current_date)

\* calculate_rank measuring the gap from the first chain of the group
calculate_rank_anchored(group) ==
    IF group = <<>> THEN <<>> ELSE RankLoopAnchored(group, 1, 1, group[1].purchase_date)

calculate_rank(group) ==
    IF group = <<>> THEN <<>> ELSE RankLoop(group, 1, 1, group[1].purchase_date)

\* groupby('customer_id').apply(calculate_rank): the groups in increasing customer_id
RECURSIVE ApplyRank(_, _)
ApplyRank(df, c) ==
    IF c > MaxCustomers THEN <<>>
    ELSE calculate_rank(SelectSeq(df, LAMBDA r : r.customer_id = c)) \o ApplyRank(df, c + 1)

\* MergeAgg with first_event aggregated by 'first'
MergeAggFirstEvent(g) ==
    [customer_id          |-> g[1].customer_id,
     rank                 |-> g[1].rank,
     conversion_id        |-> g[Len(g)].conversion_id,
     conversion_timestamp |-> g[Len(g)].conversion_timestamp,
     first_event          |-> g[1].first_event,
     purchase_date        |-> MaxOf({g[i].purchase_date : i \in 1..Len(g)}),
     purchase_value       |-> SumSeq([i \in 1..Len(g) |-> g[i].purchase_value]),
     chain                |-> Flatten([i \in 1..Len(g) |-> g[i].chain])]

\* MergeAgg with conversion_id aggregated by 'first'
MergeAggFirstId(g) ==
    [customer_id          |-> g[1].customer_id,
     rank                 |-> g[1].rank,
     conversion_id        |-> g[1].conversion_id,
     conversion_timestamp |-> g[Len(g)].conversion_timestamp,
     first_event          |-> MinOf({g[i].first_event : i \in 1..Len(g)}),
     purchase_date        |-> MaxOf({g[i].purchase_date : i \in 1..Len(g)}),
     purchase_value       |-> SumSeq([i \in 1..Len(g) |-> g[i].purchase_value]),
     chain                |-> Flatten([i \in 1..Len(g) |-> g[i].chain])]

\* agg of one (customer_id, rank) group, rows in group order
MergeAgg(g) ==
    [customer_id          |-> g[1].customer_id,
     rank                 |-> g[1].rank,
     conversion_id        |-> g[Len(g)].conversion_id,
     conversion_timestamp |-> g[Len(g)].conversion_timestamp,
     first_event          |-> MinOf({g[i].first_event : i \in 1..Len(g)}),
     purchase_date        |-> MaxOf({g[i].purchase_date : i \in 1..Len(g)}),
     purchase_value       |-> SumSeq([i \in 1..Len(g) |-> g[i].purchase_value]),
     chain                |-> Flatten([i \in 1..Len(g) |-> g[i].chain])]

\* groupby(['customer_id', 'rank']).agg(...): one row per key, keys increasing
RECURSIVE AggRanks(_, _, _)
AggRanks(df, c, r) ==
    IF c > MaxCustomers THEN <<>>
    ELSE IF r > Len(df) THEN AggRanks(df, c + 1, 1)
    ELSE LET g == SelectSeq(df, LAMBDA x : x.customer_id = c /\ x.rank = r)
         IN  (IF g = <<>> THEN <<>> ELSE <<MergeAgg(g)>>) \o AggRanks(df, c, r + 1)

\* lines 206-212
ChainMergeFrame(df) == AggRanks(ApplyRank(SortValues(df, {p \in RowPairs(df) : MergeBefore(df[p[1]], df[p[2]])}), 1), 1, 1)

\* the assertion of line 213
MergeReturns(df) ==
    Len(ChainMergeFrame(df)) = Cardinality(ConversionIds(ChainMergeFrame(df)))

-----------------------------------------------------------------------------
(* functions.py chain_concatenation *)

\* sort_values(['customer_id', 'purchase_date'], ascending=(True, False))
ConcatBefore(a, b) ==
    \/ a.customer_id < b.customer_id
    \/ /\ a.customer_id = b.customer_id
       /\ a.purchase_date > b.purchase_date

\* WithinRange with the threshold itself out of range
WithinRangeStrict(i, j, current_date, inner_date) ==
    /\ i # j
    /\ current_date > inner_date
    /\ current_date - inner_date < CHAIN_CONCAT_DAYS_TH

\* the condition of lines 238-239 for the rows labelled i and j
WithinRange(i, j, current_date, inner_date) ==
    /\ i # j
    /\ current_date > inner_date
    /\ current_date - inner_date <= CHAIN_CONCAT_DAYS_TH

\* the inner loop "for j, inner_row in group.iterrows()" from row j on
RECURSIVE InnerLoop(_, _, _, _)
InnerLoop(group, i, j, current_chain) ==
    IF j > Len(group) THEN current_chain
    ELSE LET inner_row == group[j]
         IN  InnerLoop(group, i, j + 1,
                 IF WithinRange(i, j, group[i].purchase_date, inner_row.purchase_date)
                 THEN inner_row.chain \o current_chain
                 ELSE current_chain)

\* WithConcatChain accumulating in the chain column itself
WithConcatChainInPlace(row, current_chain) ==
    [customer_id          |-> row.customer_id,
     conversion_id        |-> row.conversion_id,
     conversion_timestamp |-> row.conversion_timestamp,
     chain                |-> current_chain,
     first_event          |-> row.first_event,
     purchase_date        |-> row.purchase_date,
     purchase_value       |-> row.purchase_value,
     concat_chain         |-> current_chain]

\* group.at[i, 'concat_chain'] = current_chain
WithConcatChain(row, current_chain) ==
    [customer_id          |-> row.customer_id,
     conversion_id        |-> row.conversion_id,
     conversion_timestamp |-> row.conversion_timestamp,
     chain                |-> row.chain,
     first_event          |-> row.first_event,
     purchase_date        |-> row.purchase_date,
     purchase_value       |-> row.purchase_value,
     concat_chain         |-> current_chain]

concatenate_events_within_range(group) ==
    [i \in 1..Len(group) |-> WithConcatChain(group[i], InnerLoop(group, i, 1, group[i].chain))]

\* groupby('customer_id').apply(concatenate_events_within_range)
RECURSIVE ApplyConcat(_, _)
ApplyConcat(df, c) ==
    IF c > MaxCustomers THEN <<>>
    ELSE concatenate_events_within_range(SelectSeq(df, LAMBDA r : r.customer_id = c))
             \o ApplyConcat(df, c + 1)

\* lines 246-249
ChainConcatFrame(df) == ApplyConcat(SortValues(df, {p \in RowPairs(df) : ConcatBefore(df[p[1]], df[p[2]])}), 1)

\* the assertion of line 250
ConcatReturns(df) ==
    Len(ChainConcatFrame(df)) = Cardinality(ConversionIds(ChainConcatFrame(df)))

-----------------------------------------------------------------------------
(* functions.py compute_channel_stats *)

\* the channel labels in the order groupby sorts them
ChannelOrder == <<"Display", "Email", "Search">>

\* a float of pandas: a fraction num/den in lowest terms, NaN or inf
RECURSIVE Gcd(_, _)
Gcd(a, b) == IF b = 0 THEN a ELSE Gcd(b, a % b)

Float(a, b) ==
    LET g == Gcd(a, b) IN [kind |-> "num", num |-> a \div g, den |-> b \div g]
NaN == [kind |-> "nan", num |-> 0, den |-> 1]
Inf == [kind |-> "inf", num |-> 0, den |-> 1]

\* Divide with a zero denominator giving 0
DivideOrZero(x, y) ==
    IF x.kind = "nan" \/ y.kind = "nan" THEN NaN
    ELSE IF y.num = 0 THEN Float(0, 1)
    ELSE Float(x.num * y.den, x.den * y.num)

\* Series / Series of floats with non-negative entries: no exception on a
\* zero denominator, x/0 is inf and 0/0 is NaN, NaN/x is NaN
Divide(x, y) ==
    IF x.kind = "nan" \/ y.kind = "nan" THEN NaN
    ELSE IF y.num = 0 THEN (IF x.num = 0 THEN NaN ELSE Inf)
    ELSE Float(x.num * y.den, x.den * y.num)

\* sum of the second components of a set of pairs
RECURSIVE SumPairs(_)
SumPairs(S) ==
    IF S = {} THEN 0
    ELSE LET p == CHOOSE q \in S : TRUE IN p[2] + SumPairs(S \ {p})

\* an explode that keeps the first element of the list only
ExplodeRowFirst(row) ==
    <<[conversion_id |-> row.conversion_id, chain |-> row.chain[1],
       purchase_value |-> row.purchase_value, chain_len |-> row.chain_len]>>

\* explode('chain') of one row: one row per element, in order; a row with an
\* empty list gives one row without label
ExplodeRow(row) ==
    IF row.chain = <<>>
    THEN <<[conversion_id |-> row.conversion_id, chain |-> "NaN",
            purchase_value |-> row.purchase_value, chain_len |-> row.chain_len]>>
    ELSE [k \in 1..Len(row.chain) |->
            [conversion_id |-> row.conversion_id, chain |-> row.chain[k],
             purchase_value |-> row.purchase_value, chain_len |-> row.chain_len]]

\* line 304
RECURSIVE Explode(_)
Explode(df) == IF df = <<>> THEN <<>> ELSE ExplodeRow(Head(df)) \o Explode(Tail(df))

\* the position of a row in the whole exploded frame
OrderInFrame(x, i) == i

\* line 305: rank('first') of the row index within the rows of its conversion_id
Order(x, i) == Cardinality({j \in 1..i : x[j].conversion_id = x[i].conversion_id})

\* first_channel for every touchpoint of order 1 (the rule of line 307)
first_channel_any(order, chain_len) == IF order = 1 THEN 1 ELSE 0

\* lines 308-315
first_channel(order, chain_len) == IF order = 1 /\ order < chain_len THEN 1 ELSE 0

\* last_channel for the chains of several touchpoints only
last_channel_multi(order, chain_len) == IF order = chain_len /\ chain_len > 1 THEN 1 ELSE 0

\* lines 310-315
last_channel(order, chain_len) == IF order = chain_len THEN 1 ELSE 0
assist_channel(order, chain_len) == IF order < chain_len THEN 1 ELSE 0
f_mono_touch(chain_len) == IF chain_len = 1 THEN 1 ELSE 0

\* channels_df after line 315
ChannelsFrame(df) ==
    LET x == Explode(df)
    IN  [i \in 1..Len(x) |->
            LET o == Order(x, i)
                r == x[i]
            IN  [index            |-> i - 1,
                 conversion_id    |-> r.conversion_id,
                 chain            |-> r.chain,
                 purchase_value   |-> r.purchase_value,
                 chain_len        |-> r.chain_len,
                 order            |-> o,
                 first_channel    |-> first_channel(o, r.chain_len),
                 last_channel     |-> last_channel(o, r.chain_len),
                 assist_channel   |-> assist_channel(o, r.chain_len),
                 f_mono_touch     |-> f_mono_touch(r.chain_len),
                 first_touch_value |-> IF first_channel(o, r.chain_len) = 1 THEN r.purchase_value ELSE 0,
                 last_touch_value |-> IF last_channel(o, r.chain_len) = 1 THEN r.purchase_value ELSE 0]]

\* the row of channel ch after the joins and the ratios, lines 317-337
StatsRow(cdf, ch) ==
    LET g == SelectSeq(cdf, LAMBDA r : r.chain = ch)
        n == Len(g)
        assists == {<<g[i].conversion_id, g[i].purchase_value>> :
                        i \in {i \in 1..n : g[i].assist_channel = 1}}
        lens == {<<g[i].conversion_id, g[i].chain_len>> : i \in 1..n}
        nr_last == SumSeq([i \in 1..n |-> g[i].last_channel])
        nr_first == SumSeq([i \in 1..n |-> g[i].first_channel])
        nr_assisted == IF assists = {} THEN NaN
                       ELSE Float(Cardinality({p[1] : p \in assists}), 1)
    IN  [channel_name             |-> ch,
         nr_appearances           |-> n,
         nr_chains                |-> Cardinality({g[i].conversion_id : i \in 1..n}),
         nr_mono_touch_chains     |-> SumSeq([i \in 1..n |-> g[i].f_mono_touch]),
         nr_first_touch_chains    |-> nr_first,
         first_touch_chains_value |-> SumSeq([i \in 1..n |-> g[i].first_touch_value]),
         nr_last_touch_chains     |-> nr_last,
         last_touch_chains_value  |-> SumSeq([i \in 1..n |-> g[i].last_touch_value]),
         nr_assisted_chains       |-> nr_assisted,
         assisted_chains_value    |-> IF assists = {} THEN NaN ELSE Float(SumPairs(assists), 1),
         mean_chain_len           |-> Float(SumPairs(lens), Cardinality(lens)),
         assisted_last_touch      |-> Divide(nr_assisted, Float(nr_last, 1)),
         first_last_touch         |-> Divide(Float(nr_first, 1), Float(nr_last, 1))]

\* groupby('chain'): one row per label that occurs, labels in sorted order
RECURSIVE StatsRows(_, _)
StatsRows(cdf, k) ==
    IF k > Len(ChannelOrder) THEN <<>>
    ELSE (IF \E i \in 1..Len(cdf) : cdf[i].chain = ChannelOrder[k]
          THEN <<StatsRow(cdf, ChannelOrder[k])>> ELSE <<>>) \o StatsRows(cdf, k + 1)

-----------------------------------------------------------------------------
(* attribution.py line 103: relativedelta(purchase_date, first_event).days.
   A date is a day number, day 0 being 1 January of year 0; years are common
   years. *)

MonthLengths == <<31, 28, 31, 30, 31, 30, 31, 31, 30, 31, 30, 31>>

MonthsPerYear == Len(MonthLengths)

\* the days of the year before month m
DaysBefore(m) == SumSeq([i \in 1..(m - 1) |-> MonthLengths[i]])

DaysPerYear == DaysBefore(MonthsPerYear + 1)

\* (year, month, day) of a day number
Ymd(n) ==
    LET doy == n % DaysPerYear
        m   == MaxOf({i \in 1..MonthsPerYear : DaysBefore(i) <= doy})
    IN  [year |-> n \div DaysPerYear, month |-> m, day |-> doy - DaysBefore(m) + 1]

DayNumber(d) == d.year * DaysPerYear + DaysBefore(d.month) + d.day - 1

\* date + relativedelta(months = months): the day is cut to the month's length
AddMonths(n, months) ==
    LET d     == Ymd(n)
        total == d.year * MonthsPerYear + (d.month - 1) + months
        m     == (total % MonthsPerYear) + 1
    IN  DayNumber([year  |-> total \div MonthsPerYear,
                   month |-> m,
                   day   |-> IF d.day > MonthLengths[m] THEN MonthLengths[m] ELSE d.day])

\* relativedelta(dt1, dt2): the loop that moves months towards dt1 until
\* dt2 + months does not pass dt1
RECURSIVE WholeMonths(_, _, _)
WholeMonths(dt1, dt2, months) ==
    LET dtm == AddMonths(dt2, months)
    IN  IF dt1 < dt2
        THEN IF dt1 > dtm THEN WholeMonths(dt1, dt2, months + 1) ELSE months
        ELSE IF dt1 < dtm THEN WholeMonths(dt1, dt2, months - 1) ELSE months

\* relativedelta(dt1, dt2).days: what is left after the whole months
RelativeDeltaDays(dt1, dt2) ==
    LET a == Ymd(dt1)
        b == Ymd(dt2)
        months == WholeMonths(dt1, dt2, (a.year - b.year) * MonthsPerYear + (a.month - b.month))
    IN  dt1 - AddMonths(dt2, months)

\* line 103
chain_duration(x) == RelativeDeltaDays(x.purchase_date, x.first_event)

-----------------------------------------------------------------------------
(* attribution.py lines 96-103: the final chain set *)

\* drop(['chain']).rename({'concat_chain': 'chain'}), chain_len and chain_duration
FromConcat(row) ==
    [customer_id          |-> row.customer_id,
     conversion_id        |-> row.conversion_id,
     conversion_timestamp |-> row.conversion_timestamp,
     chain                |-> row.concat_chain,
     first_event          |-> row.first_event,
     purchase_date        |-> row.purchase_date,
     purchase_value       |-> row.purchase_value,
     chain_len            |-> Len(row.concat_chain),
     chain_duration       |-> chain_duration(row)]

\* merged_chains_df.copy(), chain_len and chain_duration
FromMerged(row) ==
    [customer_id          |-> row.customer_id,
     rank                 |-> row.rank,
     conversion_id        |-> row.conversion_id,
     conversion_timestamp |-> row.conversion_timestamp,
     chain                |-> row.chain,
     first_event          |-> row.first_event,
     purchase_date        |-> row.purchase_date,
     purchase_value       |-> row.purchase_value,
     chain_len            |-> Len(row.chain),
     chain_duration       |-> chain_duration(row)]

\* the frame chain_concatenation is called on at line 93
ConcatInput == chains_df

-----------------------------------------------------------------------------
(* main() *)

Init ==
    /\ pc = "start"
    /\ CONCAT_CHAINS \in BOOLEAN
    /\ \E n \in 1..MaxSessions :
         \E cust \in [1..n -> 1..MaxCustomers], purch \in [1..n -> {0, 1}],
            first \in [1..n -> 0..MaxTs], last \in [1..n -> 0..MaxTs] :
            /\ \A s \in 1..n : first[s] <= last[s]
            /\ events = EventTable(n, cust, first, last, purch)
    /\ chains_df = NoFrame
    /\ merged_chains_df = NoFrame
    /\ concat_chains_df = NoFrame
    /\ preproc_chains_df = NoFrame
    /\ channels_df = NoFrame
    /\ channel_stats = NoFrame
    /\ preproc_data = NoFrame
    /\ mmm_perimeter = NoFrame
    /\ years_map = NoFrame

\* attribution.py lines 73-78: sort the events, build the chains
Build ==
    /\ pc = "start"
    /\ LET events_df == SortEvents(events)
       IN  IF BuilderReturns(events_df)
           THEN /\ chains_df' = ConvChains(events_df)
                /\ pc' = "built"
           ELSE /\ chains_df' = chains_df
                /\ pc' = "aborted"
    /\ UNCHANGED <<preproc_data, mmm_perimeter, years_map, CONCAT_CHAINS, events, merged_chains_df, concat_chains_df,
                   preproc_chains_df, channels_df, channel_stats>>

\* line 84: chain_merge(chains_df)
Merge ==
    /\ pc = "built"
    /\ IF MergeReturns(chains_df)
       THEN /\ merged_chains_df' = ChainMergeFrame(chains_df)
            /\ pc' = "merged"
       ELSE /\ merged_chains_df' = merged_chains_df
            /\ pc' = "aborted"
    /\ UNCHANGED <<preproc_data, mmm_perimeter, years_map, CONCAT_CHAINS, events, chains_df, concat_chains_df,
                   preproc_chains_df, channels_df, channel_stats>>

\* lines 91-97 and 102: the branch "if CONCAT_CHAINS"
Concatenate ==
    /\ pc = "merged"
    /\ CONCAT_CHAINS
    /\ IF ConcatReturns(ConcatInput)
       THEN /\ concat_chains_df' = ChainConcatFrame(ConcatInput)
            /\ preproc_chains_df' = [i \in 1..Len(concat_chains_df') |-> FromConcat(concat_chains_df'[i])]
            /\ pc' = "preproc"
       ELSE /\ UNCHANGED <<concat_chains_df, preproc_chains_df>>
            /\ pc' = "aborted"
    /\ UNCHANGED <<preproc_data, mmm_perimeter, years_map, CONCAT_CHAINS, events, chains_df, merged_chains_df, channels_df, channel_stats>>

\* lines 99-102: the branch "else"
KeepMerged ==
    /\ pc = "merged"
    /\ ~CONCAT_CHAINS
    /\ preproc_chains_df' = [i \in 1..Len(merged_chains_df) |-> FromMerged(merged_chains_df[i])]
    /\ pc' = "preproc"
    /\ UNCHANGED <<preproc_data, mmm_perimeter, years_map, CONCAT_CHAINS, events, chains_df, merged_chains_df,
                   concat_chains_df, channels_df, channel_stats>>

\* line 112: compute_channel_stats(preproc_chains_df), functions.py lines 303-339
Stats ==
    /\ pc = "preproc"
    /\ channels_df' = ChannelsFrame(preproc_chains_df)
    /\ channel_stats' = StatsRows(channels_df', 1)
    /\ pc' = "done"
    /\ UNCHANGED <<preproc_data, mmm_perimeter, years_map, CONCAT_CHAINS, events, chains_df, merged_chains_df,
                   concat_chains_df, preproc_chains_df>>

Next == Build \/ Merge \/ Concatenate \/ KeepMerged \/ Stats

Spec == Init /\ [][Next]_vars

-----------------------------------------------------------------------------
(* The Merger and the Concatenator on chain sets with purchases up to MaxDay *)

\* the chain the Builder emits for session s when the session converts on day
\* purchase_day, started lag days before and no other event precedes it in
\* the chain
SessionChain(s, cust, purchase_day, lag) ==
    [customer_id          |-> cust,
     conversion_id        |-> <<s, purchase_day>>,
     conversion_timestamp |-> purchase_day * TicksPerDay + (lag % TicksPerDay),
     chain                |-> SessionChannels(s),
     first_event          |-> purchase_day - lag,
     purchase_date        |-> purchase_day,
     purchase_value       |-> SessionRevenue(s)]

\* The Builder emits the chains customer by customer, and a customer's
\* chains in the order of their first events
BuilderOrdered(df) ==
    \A k \in 1..(Len(df) - 1) :
        \/ df[k].customer_id < df[k + 1].customer_id
        \/ /\ df[k].customer_id = df[k + 1].customer_id
           /\ df[k].first_event <= df[k + 1].first_event

InitChains ==
    /\ pc = "built"
    /\ CONCAT_CHAINS \in BOOLEAN
    /\ events = NoFrame
    /\ \E n \in 1..MaxChains :
         \E cust \in [1..n -> 1..MaxCustomers], day \in [1..n -> 0..MaxDay],
            lag \in [1..n -> 0..MaxLag] :
            /\ \A s \in 1..n : lag[s] <= day[s]
            /\ chains_df = [s \in 1..n |-> SessionChain(s, cust[s], day[s], lag[s])]
            /\ BuilderOrdered(chains_df)
    /\ merged_chains_df = NoFrame
    /\ concat_chains_df = NoFrame
    /\ preproc_chains_df = NoFrame
    /\ channels_df = NoFrame
    /\ channel_stats = NoFrame
    /\ preproc_data = NoFrame
    /\ mmm_perimeter = NoFrame
    /\ years_map = NoFrame

NextChains == Merge \/ Concatenate \/ KeepMerged

SpecChains == InitChains /\ [][NextChains]_vars

-----------------------------------------------------------------------------
(* chain_merge applied to its own output *)

\* chain_merge(merged_chains_df)
MergeAgain ==
    /\ pc = "merged"
    /\ IF MergeReturns(merged_chains_df)
       THEN /\ merged_chains_df' = ChainMergeFrame(merged_chains_df)
            /\ pc' = "remerged"
       ELSE /\ merged_chains_df' = merged_chains_df
            /\ pc' = "aborted"
    /\ UNCHANGED <<preproc_data, mmm_perimeter, years_map, CONCAT_CHAINS, events, chains_df, concat_chains_df,
                   preproc_chains_df, channels_df, channel_stats>>

NextRemerge == Merge \/ MergeAgain

SpecRemerge == InitChains /\ [][NextRemerge]_vars

-----------------------------------------------------------------------------
(* The final chain set of one chain with dates up to MaxSpan *)

InitDuration ==
    /\ pc = "built"
    /\ CONCAT_CHAINS \in BOOLEAN
    /\ events = NoFrame
    /\ \E s \in 1..MaxChains, purchase_day \in 0..MaxSpan :
         \E lag \in 0..purchase_day :
            chains_df = <<SessionChain(s, 1, purchase_day, lag)>>
    /\ merged_chains_df = NoFrame
    /\ concat_chains_df = NoFrame
    /\ preproc_chains_df = NoFrame
    /\ channels_df = NoFrame
    /\ channel_stats = NoFrame
    /\ preproc_data = NoFrame
    /\ mmm_perimeter = NoFrame
    /\ years_map = NoFrame

NextDuration == Merge \/ Concatenate \/ KeepMerged

SpecDuration == InitDuration /\ [][NextDuration]_vars

-----------------------------------------------------------------------------
(* The Aggregator on final chain sets of any touchpoint sequences *)

\* the sequences of 1..MaxChainLen channel labels
ChainSeqs == UNION {[1..l -> Range(ChannelOrder)] : l \in 1..MaxChainLen}

\* a row of the final chain set with sequence c, for conversion s
FinalChain(s, c) ==
    [customer_id          |-> 1,
     conversion_id        |-> <<s, 0>>,
     conversion_timestamp |-> 0,
     chain                |-> c,
     first_event          |-> 0,
     purchase_date        |-> 0,
     purchase_value       |-> SessionRevenue(s),
     chain_len            |-> Len(c)]

InitStats ==
    /\ pc = "preproc"
    /\ CONCAT_CHAINS = TRUE
    /\ events = NoFrame
    /\ chains_df = NoFrame
    /\ merged_chains_df = NoFrame
    /\ concat_chains_df = NoFrame
    /\ \E n \in 1..MaxStatChains :
         \E c \in [1..n -> ChainSeqs] :
            preproc_chains_df = [s \in 1..n |-> FinalChain(s, c[s])]
    /\ channels_df = NoFrame
    /\ channel_stats = NoFrame
    /\ preproc_data = NoFrame
    /\ mmm_perimeter = NoFrame
    /\ years_map = NoFrame

NextStats == Stats

SpecStats == InitStats /\ [][NextStats]_vars

-----------------------------------------------------------------------------
(* marketing_mix_model/src/functions.py: map_year_rolling and
   prepare_time_features. A date is the number of its week; a string is the
   sequence of its characters. *)

OOS == <<"o", "o", "s">>

\* the keys of years_map, in order
YearNames == << <<"y", "1">>, <<"y", "2">>, <<"y", "3">> >>

Digits == <<"0", "1", "2", "3", "4", "5", "6", "7", "8", "9">>

IsDigit(ch) == \E i \in 1..Len(Digits) : Digits[i] = ch

\* re.findall(r'\d+', x): the maximal runs of digits of x from position k on;
\* run is the run that is open at k
RECURSIVE FindAllDigits(_, _, _)
FindAllDigits(x, k, run) ==
    IF k > Len(x) THEN (IF run = <<>> THEN <<>> ELSE <<run>>)
    ELSE IF IsDigit(x[k]) THEN FindAllDigits(x, k + 1, Append(run, x[k]))
    ELSE (IF run = <<>> THEN <<>> ELSE <<run>>) \o FindAllDigits(x, k + 1, <<>>)

\* int() of a string of digits
RECURSIVE IntOf(_)
IntOf(s) ==
    IF s = <<>> THEN 0
    ELSE IntOf(SubSeq(s, 1, Len(s) - 1)) * Len(Digits)
             + (CHOOSE i \in 1..Len(Digits) : Digits[i] = s[Len(s)]) - 1

\* the loop "for year in years_map.keys()" from key k on
RECURSIVE MapYearLoop(_, _, _)
MapYearLoop(d, ymap, k) ==
    IF k > Len(ymap) THEN OOS
    ELSE IF ymap[k].start_date <= d /\ d <= ymap[k].end_date THEN ymap[k].year
    ELSE MapYearLoop(d, ymap, k + 1)

map_year_rolling(d, ymap) == MapYearLoop(d, ymap, 1)

\* df[df.week_end_date.between(*perimeter)]: both ends included
InPerimeter(input_df, perimeter) ==
    SelectSeq(input_df, LAMBDA r : perimeter[1] <= r.week_end_date /\ r.week_end_date <= perimeter[2])

\* line 118 raises IndexError when a year_rolling holds no digit
TimeFeaturesReturn(input_df, perimeter, ymap) ==
    LET df == InPerimeter(input_df, perimeter)
    IN  \A i \in 1..Len(df) :
            FindAllDigits(map_year_rolling(df[i].week_end_date, ymap), 1, <<>>) # <<>>

prepare_time_features(input_df, perimeter, ymap) ==
    LET df == InPerimeter(input_df, perimeter)
    IN  [i \in 1..Len(df) |->
            LET year_rolling == map_year_rolling(df[i].week_end_date, ymap)
            IN  [week_end_date |-> df[i].week_end_date,
                 spend         |-> df[i].spend,
                 year_rolling  |-> year_rolling,
                 year_nr       |-> IntOf(FindAllDigits(year_rolling, 1, <<>>)[1])]]

-----------------------------------------------------------------------------
(* data_preprocessing_report.py main(), lines 30-41 *)

InitTime ==
    /\ pc = "mmm_start"
    /\ CONCAT_CHAINS = FALSE
    /\ events = NoFrame
    /\ chains_df = NoFrame
    /\ merged_chains_df = NoFrame
    /\ concat_chains_df = NoFrame
    /\ preproc_chains_df = NoFrame
    /\ channels_df = NoFrame
    /\ channel_stats = NoFrame
    /\ \E n \in 1..MaxWeeks :
         \E week \in [1..n -> 0..MaxWeek] :
            preproc_data = [i \in 1..n |-> [week_end_date |-> week[i], spend |-> i]]
    /\ \E start_date \in 0..MaxWeek, end_date \in 0..MaxWeek :
         /\ start_date <= end_date
         /\ mmm_perimeter = <<start_date, end_date>>
    /\ \E n \in 1..MaxYears :
         \E start_date \in [1..n -> 0..MaxWeek], end_date \in [1..n -> 0..MaxWeek] :
            /\ \A y \in 1..n : start_date[y] <= end_date[y]
            /\ years_map = [y \in 1..n |-> [year       |-> YearNames[y],
                                             start_date |-> start_date[y],
                                             end_date   |-> end_date[y]]]

\* line 40; an exception ends main at lines 53-55
PrepareTimeFeatures ==
    /\ pc = "mmm_start"
    /\ IF TimeFeaturesReturn(preproc_data, mmm_perimeter, years_map)
       THEN /\ preproc_data' = prepare_time_features(preproc_data, mmm_perimeter, years_map)
            /\ pc' = "mmm_prepared"
       ELSE /\ preproc_data' = preproc_data
            /\ pc' = "mmm_failed"
    /\ UNCHANGED <<mmm_perimeter, years_map, CONCAT_CHAINS, events, chains_df,
                   merged_chains_df, concat_chains_df, preproc_chains_df,
                   channels_df, channel_stats>>

\* line 41
DropOutOfScope ==
    /\ pc = "mmm_prepared"
    /\ preproc_data' = SelectSeq(preproc_data, LAMBDA r : r.year_rolling # OOS)
    /\ pc' = "mmm_filtered"
    /\ UNCHANGED <<mmm_perimeter, years_map, CONCAT_CHAINS, events, chains_df,
                   merged_chains_df, concat_chains_df, preproc_chains_df,
                   channels_df, channel_stats>>

NextTime == PrepareTimeFeatures \/ DropOutOfScope

SpecTime == InitTime /\ [][NextTime]_vars

-----------------------------------------------------------------------------
(* Properties *)

\* the sort order of chain_merge on the rows i and j of df: increasing
\* conversion_timestamp, rows with equal timestamps in row order
Earlier(df, i, j) ==
    \/ df[i].conversion_timestamp < df[j].conversion_timestamp
    \/ /\ df[i].conversion_timestamp = df[j].conversion_timestamp
       /\ i < j

\* C1: for every sorted Event Table that satisfies the session-level
\* invariants the Builder returns, the number of chains is the number of
\* distinct converting sessions and the conversion_ids are pairwise distinct
C1_BuilderConserves ==
    pc # "start" =>
        /\ pc # "aborted"
        /\ Len(chains_df) = Cardinality(ConvertingSessions(events))
        /\ Cardinality(ConversionIds(chains_df)) = Len(chains_df)

\* C2 as stated: every conversion_id of the input of chain_merge is in its output
C2_MergeKeepsEveryId ==
    pc = "merged" => ConversionIds(merged_chains_df) = ConversionIds(chains_df)

\* row i of df is followed, in the order of chain_merge, by a chain of the
\* same customer that purchases at most the merge threshold later
Absorbed(df, i) ==
    \E j \in 1..Len(df) :
        /\ df[j].customer_id = df[i].customer_id
        /\ Earlier(df, i, j)
        /\ df[j].purchase_date - df[i].purchase_date <= MERGE_PURCH_DAYS_TH

\* C2 amended: the output of chain_merge holds input conversion_ids only, each
\* once, and the conversion_id of an input chain is missing from the output
\* exactly when a later chain of the same customer within the merge threshold
\* absorbs it
C2_MergeKeepsLastIds ==
    pc = "merged" =>
        /\ Cardinality(ConversionIds(merged_chains_df)) = Len(merged_chains_df)
        /\ ConversionIds(merged_chains_df) \subseteq ConversionIds(chains_df)
        /\ \A i \in 1..Len(chains_df) :
              (chains_df[i].conversion_id \notin ConversionIds(merged_chains_df))
                  <=> Absorbed(chains_df, i)

\* a merge took place: three chains became two
C2_Witness ==
    /\ pc = "merged"
    /\ Len(chains_df) = 3
    /\ Len(merged_chains_df) = 2

\* the columns chain_concatenation receives, of a row of either frame
InputColumns(row) ==
    <<row.customer_id, row.conversion_id, row.conversion_timestamp, row.chain,
      row.first_event, row.purchase_date, row.purchase_value>>

\* C3: chain_concatenation is 1:1 with its input: as many rows, the same
\* conversion_ids, every output row is one input row with its customer_id,
\* raw chain, first_event, purchase_date and purchase_value unchanged, and the
\* input chain set is left as it was
C3_ConcatOneToOne ==
    [][(pc = "merged" /\ pc' = "preproc" /\ CONCAT_CHAINS) =>
          /\ Len(concat_chains_df') = Len(chains_df)
          /\ ConversionIds(concat_chains_df') = ConversionIds(chains_df)
          /\ \A i \in 1..Len(chains_df) :
                Cardinality({o \in 1..Len(concat_chains_df') :
                    InputColumns(concat_chains_df'[o]) = InputColumns(chains_df[i])}) = 1
          /\ chains_df' = chains_df]_vars

\* chain_concatenation ran on three chains and lengthened one of them
C3_Witness ==
    /\ pc = "preproc"
    /\ CONCAT_CHAINS
    /\ Len(concat_chains_df) = 3
    /\ \E o \in 1..3 : concat_chains_df[o].concat_chain # concat_chains_df[o].chain

\* the rows i and j of df follow each other in the order of conversion_timestamp
\* among the chains of their customer
Consecutive(df, i, j) ==
    /\ df[i].customer_id = df[j].customer_id
    /\ Earlier(df, i, j)
    /\ ~\E k \in 1..Len(df) :
          /\ df[k].customer_id = df[i].customer_id
          /\ Earlier(df, i, k)
          /\ Earlier(df, k, j)

\* the row of the merged frame that holds row i of df: the first merged chain
\* of the customer that converts at or after row i
MergedInto(df, merged, i) ==
    CHOOSE m \in 1..Len(merged) :
        /\ merged[m].customer_id = df[i].customer_id
        /\ merged[m].conversion_timestamp >= df[i].conversion_timestamp
        /\ \A n \in 1..Len(merged) :
              (/\ merged[n].customer_id = df[i].customer_id
               /\ merged[n].conversion_timestamp >= df[i].conversion_timestamp)
                  => merged[m].conversion_timestamp <= merged[n].conversion_timestamp

GroupOf(df, merged, m) ==
    {i \in 1..Len(df) :
        /\ df[i].customer_id = merged[m].customer_id
        /\ df[i].conversion_timestamp <= merged[m].conversion_timestamp
        /\ \A n \in 1..Len(merged) :
              (/\ merged[n].customer_id = merged[m].customer_id
               /\ merged[n].conversion_timestamp < merged[m].conversion_timestamp)
                  => merged[n].conversion_timestamp < df[i].conversion_timestamp}

\* the rows S of df in increasing time order
InTimeOrder(df, S) ==
    [p \in 1..Cardinality(S) |->
        CHOOSE i \in S : Cardinality({j \in S : Earlier(df, j, i)}) = p - 1]

\* C5: every chain output by chain_merge is the reduction of one merge group
\* of one customer: conversion_id and conversion_timestamp of the group's last
\* chain in time order, the minimum first_event, the maximum purchase_date,
\* the sum of the values, the chains concatenated in increasing time order;
\* the groups share no chain and the output has at most as many chains as the input
C5_MergeReduces ==
    pc = "merged" =>
        /\ Len(merged_chains_df) <= Len(chains_df)
        /\ \A i \in 1..Len(chains_df) :
              Cardinality({m \in 1..Len(merged_chains_df) :
                              i \in GroupOf(chains_df, merged_chains_df, m)}) = 1
        /\ \A m \in 1..Len(merged_chains_df) :
              LET G == GroupOf(chains_df, merged_chains_df, m)
                  g == InTimeOrder(chains_df, G)
                  last == chains_df[g[Len(g)]]
                  out == merged_chains_df[m]
              IN  /\ G # {}
                  /\ out.conversion_id = last.conversion_id
                  /\ out.conversion_timestamp = last.conversion_timestamp
                  /\ \A i \in G : out.first_event <= chains_df[i].first_event
                  /\ \E i \in G : out.first_event = chains_df[i].first_event
                  /\ \A i \in G : out.purchase_date >= chains_df[i].purchase_date
                  /\ \E i \in G : out.purchase_date = chains_df[i].purchase_date
                  /\ out.purchase_value = SumSeq([p \in 1..Len(g) |-> chains_df[g[p]].purchase_value])
                  /\ out.chain = Flatten([p \in 1..Len(g) |-> chains_df[g[p]].chain])

\* the scenario of the specification: [Search, Display] worth 100 on day 0 and
\* [Email] worth 50 on day 2 become [Search, Display, Email], 150, day 2
C5_Witness ==
    /\ pc = "merged"
    /\ Len(chains_df) = 2
    /\ chains_df[1].chain = <<"Search", "Display">>
    /\ chains_df[1].purchase_value = 100
    /\ chains_df[1].purchase_date = 0
    /\ chains_df[2].chain = <<"Email">>
    /\ chains_df[2].purchase_value = 50
    /\ chains_df[2].purchase_date = 2
    /\ Len(merged_chains_df) = 1
    /\ merged_chains_df[1].chain = <<"Search", "Display", "Email">>
    /\ merged_chains_df[1].purchase_value = 150
    /\ merged_chains_df[1].purchase_date = 2

\* the chains of df that qualify for the concatenated chain of row o of the
\* output: same customer, purchase strictly before and at most the
\* concatenation threshold before
Qualifying(df, row) ==
    {j \in 1..Len(df) :
        /\ df[j].customer_id = row.customer_id
        /\ 0 < row.purchase_date - df[j].purchase_date
        /\ row.purchase_date - df[j].purchase_date <= CHAIN_CONCAT_DAYS_TH}

\* the orders in which the rows S can be listed
Listings(S) ==
    {q \in [1..Cardinality(S) -> S] : \A a, b \in 1..Cardinality(S) : a # b => q[a] # q[b]}

\* C6: the concat_chain of every chain is made of the raw chains of exactly
\* the chains of its customer that purchased 1 to 10 days before it, followed
\* by its own raw chain
C6_ConcatLocality ==
    (pc = "preproc" /\ CONCAT_CHAINS) =>
        \A o \in 1..Len(concat_chains_df) :
            LET row == concat_chains_df[o]
            IN  \E q \in Listings(Qualifying(chains_df, row)) :
                    row.concat_chain =
                        Flatten([p \in 1..Len(q) |-> chains_df[q[p]].chain]) \o row.chain

\* three chains of one customer on days 0, 1 and 11: the last one is preceded
\* by the chain of day 1 (10 days before) and not by the chain of day 0
C6_Witness ==
    /\ pc = "preproc"
    /\ CONCAT_CHAINS
    /\ Len(chains_df) = 3
    /\ \A i \in 1..3 : chains_df[i].customer_id = 1
    /\ {chains_df[i].purchase_date : i \in 1..3} = {0, 1, CHAIN_CONCAT_DAYS_TH + 1}
    /\ \E o, j \in 1..3 :
          /\ concat_chains_df[o].purchase_date = CHAIN_CONCAT_DAYS_TH + 1
          /\ chains_df[j].purchase_date = 1
          /\ concat_chains_df[o].concat_chain = chains_df[j].chain \o concat_chains_df[o].chain

\* C7: the raw chains a chain absorbs in chain_concatenation stand in its
\* concat_chain in ascending time order of the contributing chains, earliest
\* conversion first and its own raw chain last, for every Builder output
C7_ConcatAscending ==
    (pc \in {"preproc", "done"} /\ CONCAT_CHAINS) =>
        \A o \in 1..Len(concat_chains_df) :
            LET row == concat_chains_df[o]
            IN  \E q \in Listings(Qualifying(chains_df, row)) :
                    /\ \A a, b \in 1..Len(q) :
                          a < b => chains_df[q[a]].conversion_timestamp
                                      <= chains_df[q[b]].conversion_timestamp
                    /\ row.concat_chain =
                          Flatten([p \in 1..Len(q) |-> chains_df[q[p]].chain]) \o row.chain

\* C8: the final chain set is the merged set, concatenated or not: it holds
\* the conversions of the Merger's output, so that chains the Merger joined
\* are one chain of the final set
C8_FinalSetIsMerged ==
    pc \in {"preproc", "done"} =>
        /\ Len(preproc_chains_df) = Len(merged_chains_df)
        /\ ConversionIds(preproc_chains_df) = ConversionIds(merged_chains_df)

\* C9: every touchpoint row has first_channel = 1 iff order = 1 and
\* order < chain_len, last_channel = 1 iff order = chain_len, assist_channel = 1
\* iff order < chain_len, f_mono_touch = 1 iff chain_len = 1, and its
\* first_touch_value and last_touch_value are purchase_value under the flag
\* and 0 otherwise; the only touchpoint of a single-touch chain is last, not
\* first and not an assist
C9_TouchpointFlags ==
    pc = "done" =>
        /\ \A i \in 1..Len(channels_df) :
              LET r == channels_df[i]
              IN  /\ r.first_channel \in {0, 1}
                  /\ (r.first_channel = 1) <=> (r.order = 1 /\ r.order < r.chain_len)
                  /\ r.last_channel \in {0, 1}
                  /\ (r.last_channel = 1) <=> (r.order = r.chain_len)
                  /\ r.assist_channel \in {0, 1}
                  /\ (r.assist_channel = 1) <=> (r.order < r.chain_len)
                  /\ r.f_mono_touch \in {0, 1}
                  /\ (r.f_mono_touch = 1) <=> (r.chain_len = 1)
                  /\ r.first_touch_value = (IF r.first_channel = 1 THEN r.purchase_value ELSE 0)
                  /\ r.last_touch_value = (IF r.last_channel = 1 THEN r.purchase_value ELSE 0)
        /\ \A c \in 1..Len(preproc_chains_df) :
              Len(preproc_chains_df[c].chain) = 1 =>
                  \E i \in 1..Len(channels_df) :
                      LET r == channels_df[i]
                      IN  /\ r.conversion_id = preproc_chains_df[c].conversion_id
                          /\ r.chain = preproc_chains_df[c].chain[1]
                          /\ r.first_channel = 0
                          /\ r.last_channel = 1
                          /\ r.assist_channel = 0
                          /\ r.f_mono_touch = 1
                          /\ r.first_touch_value = 0
                          /\ r.last_touch_value = r.purchase_value

\* a single-touch chain and a chain of several touchpoints were labelled
C9_Witness ==
    /\ pc = "done"
    /\ \E i, j \in 1..Len(channels_df) :
          /\ channels_df[i].chain_len = 1
          /\ channels_df[i].last_channel = 1
          /\ channels_df[j].chain_len > 1
          /\ channels_df[j].first_channel = 1

\* the channel labels of the touchpoints of df
LabelsOf(df) == UNION {Range(df[c].chain) : c \in 1..Len(df)}

\* C10: a channel that is the last touch of no chain has a row in the output
\* of compute_channel_stats, and both its ratios are NaN or infinite, never
\* a number
C10_UndefinedRatios ==
    pc = "done" =>
        /\ \A ch \in LabelsOf(preproc_chains_df) :
              \E k \in 1..Len(channel_stats) : channel_stats[k].channel_name = ch
        /\ \A k \in 1..Len(channel_stats) :
              channel_stats[k].nr_last_touch_chains = 0 =>
                  /\ channel_stats[k].assisted_last_touch.kind \in {"nan", "inf"}
                  /\ channel_stats[k].first_last_touch.kind \in {"nan", "inf"}

\* a channel without last touch whose ratios are infinite and NaN
C10_Witness ==
    /\ pc = "done"
    /\ \E k \in 1..Len(channel_stats) :
          /\ channel_stats[k].nr_last_touch_chains = 0
          /\ channel_stats[k].assisted_last_touch.kind = "inf"
          /\ channel_stats[k].first_last_touch.kind = "nan"

-----------------------------------------------------------------------------
(* the scan of a customer's events *)

\* the rows of customer c in scan order (the table as line 73 sorts it)
CustomerRows(c) == SelectSeq(SortEvents(events), LAMBDA r : r.customer_id = c)

\* row k is a closing event: a purchase row followed by another session or by nothing
ClosingRow(rows, k) ==
    /\ rows[k].f_purchased = 1
    /\ k = Len(rows) \/ rows[k + 1].session_id # rows[k].session_id

\* the position of the customer's last closing event, 0 when there is none
LastClosing(rows) ==
    LET closing == {k \in 1..Len(rows) : ClosingRow(rows, k)}
    IN  IF closing = {} THEN 0 ELSE MaxOf(closing)

ChainsOf(df, c) == SelectSeq(df, LAMBDA r : r.customer_id = c)

\* C11: the touchpoints after a customer's last closing event are in no
\* emitted chain, and a chain holds touchpoints of its own customer only: the
\* chains of each customer, one after the other, are exactly the channel labels
\* of the customer's rows up to and including the last closing event, so that
\* nothing of the tail, and nothing of another customer, is in any of them.
C11_TailDiscarded ==
    pc = "built" =>
        \A c \in 1..MaxCustomers :
            LET rows == CustomerRows(c)
                own  == ChainsOf(chains_df, c)
            IN  Flatten([i \in 1..Len(own) |-> own[i].chain])
                    = [k \in 1..LastClosing(rows) |-> rows[k].channel_group]

\* a customer with touchpoints after the last conversion, followed by a
\* customer with a chain
C11_Witness ==
    /\ pc = "built"
    /\ \E c \in 1..MaxCustomers, d \in 1..MaxCustomers :
          /\ c < d
          /\ LastClosing(CustomerRows(c)) >= 1
          /\ LastClosing(CustomerRows(c)) < Len(CustomerRows(c))
          /\ ChainsOf(chains_df, d) # <<>>

ClosingRows(rows) == {k \in 1..Len(rows) : ClosingRow(rows, k)}

\* the closing event before position k, 0 when there is none
PrevClosing(rows, k) ==
    LET before == {j \in ClosingRows(rows) : j < k}
    IN  IF before = {} THEN 0 ELSE MaxOf(before)

\* the channel labels of rows from + 1 .. to, in scan order
Segment(rows, from, to) == [n \in 1..(to - from) |-> rows[from + n].channel_group]

\* C16: the chains of a customer are the consecutive segments that the
\* customer's closing events cut out of the customer's rows: as many chains as
\* closing events, and the i-th chain is exactly the channel labels, in scan
\* order, of the rows strictly after the (i-1)-th closing event up to and
\* including the i-th one. So the segments are disjoint, and the touchpoints
\* scanned after an emission are not in the emitted chain.
C16_ChainsAreSegments ==
    pc = "built" =>
        \A c \in 1..MaxCustomers :
            LET rows == CustomerRows(c)
                own  == ChainsOf(chains_df, c)
            IN  /\ Len(own) = Cardinality(ClosingRows(rows))
                /\ \A k \in ClosingRows(rows) :
                      LET i == Cardinality({j \in ClosingRows(rows) : j <= k})
                      IN  own[i].chain = Segment(rows, PrevClosing(rows, k), k)

\* a customer with two chains, the second one starting after the first one's
\* closing event, and touchpoints scanned after the first emission
C16_Witness ==
    /\ pc = "built"
    /\ \E c \in 1..MaxCustomers :
          LET rows == CustomerRows(c)
          IN  /\ Cardinality(ClosingRows(rows)) >= 2
              /\ \E k \in ClosingRows(rows) :
                    /\ PrevClosing(rows, k) >= 1
                    /\ k - PrevClosing(rows, k) >= 2

-----------------------------------------------------------------------------
(* chain_duration *)

\* C12: in the final chain set chain_duration is the number of days between
\* first_event and purchase_date, whatever the distance of the two dates.
C12_DurationIsDayCount ==
    pc = "preproc" =>
        \A c \in 1..Len(preproc_chains_df) :
            preproc_chains_df[c].chain_duration
                = preproc_chains_df[c].purchase_date - preproc_chains_df[c].first_event

-----------------------------------------------------------------------------
(* first_event *)

\* the first touchpoint of the chain can be dated first_event: an event of the
\* chain's customer carries the chain's first label and started on first_event
StartsOnFirstEvent(row) ==
    \E e \in 1..Len(events) :
        /\ events[e].customer_id = row.customer_id
        /\ events[e].channel_group = row.chain[1]
        /\ Date(events[e].first_event_timestamp) = row.first_event

\* C13: first_event is the date of the first touchpoint of the chain's
\* sequence, in the chains of the Builder, in the chains of the Merger and in
\* the final chain set.
C13_FirstEventDatesFirstTouchpoint ==
    /\ pc = "built" => \A c \in 1..Len(chains_df) : StartsOnFirstEvent(chains_df[c])
    /\ pc = "merged" => \A c \in 1..Len(merged_chains_df) : StartsOnFirstEvent(merged_chains_df[c])
    /\ pc = "preproc" => \A c \in 1..Len(preproc_chains_df) : StartsOnFirstEvent(preproc_chains_df[c])

-----------------------------------------------------------------------------
(* the rows of compute_channel_stats *)

\* the ordered touchpoint sequences (paths) of df
PathsOf(df) == {df[c].chain : c \in 1..Len(df)}

\* the touchpoints of df that carry label ch: (chain, position)
Touchpoints(df, ch) ==
    {p \in (1..Len(df)) \X (1..MaxChainLen) : p[2] <= Len(df[p[1]].chain) /\ df[p[1]].chain[p[2]] = ch}

\* C14 as stated: compute_channel_stats groups by the entire ordered chain:
\* the output has one row per distinct path, keyed by the path.
C14_OneRowPerPath ==
    pc = "done" =>
        /\ Len(channel_stats) = Cardinality(PathsOf(preproc_chains_df))
        /\ {<<channel_stats[k].channel_name>> : k \in 1..Len(channel_stats)}
               = PathsOf(preproc_chains_df)

\* C14, amended: compute_channel_stats groups the exploded touchpoints by
\* their channel label: the output has exactly one row per distinct label
\* that occurs in any chain, keyed by the label, and nr_appearances of the row
\* counts the touchpoints with that label over all chains.
C14_OneRowPerLabel ==
    pc = "done" =>
        /\ Len(channel_stats) = Cardinality(LabelsOf(preproc_chains_df))
        /\ {channel_stats[k].channel_name : k \in 1..Len(channel_stats)}
               = LabelsOf(preproc_chains_df)
        /\ \A k \in 1..Len(channel_stats) :
              channel_stats[k].nr_appearances
                  = Cardinality(Touchpoints(preproc_chains_df, channel_stats[k].channel_name))

\* the chains [Search, Display] and [Display, Search]: two paths, and two rows
\* keyed Display and Search
C14_Witness ==
    /\ pc = "done"
    /\ PathsOf(preproc_chains_df) = {<<"Search", "Display">>, <<"Display", "Search">>}
    /\ Len(channel_stats) = 2
    /\ channel_stats[1].channel_name = "Display"
    /\ channel_stats[2].channel_name = "Search"

-----------------------------------------------------------------------------
(* assisted conversions *)

\* the chains of df in which ch occupies at least one non-final position
AssistedBy(df, ch) ==
    {c \in 1..Len(df) : \E p \in 1..(Len(df[c].chain) - 1) : df[c].chain[p] = ch}

\* the sum of purchase_value over the chains S of df, each one once
RECURSIVE ValueOf(_, _)
ValueOf(df, S) ==
    IF S = {} THEN 0
    ELSE LET c == CHOOSE x \in S : TRUE IN df[c].purchase_value + ValueOf(df, S \ {c})

\* C17: nr_assisted_chains of a channel is the number of distinct conversions
\* in which the channel occupies at least one non-final position, and
\* assisted_chains_value is the sum of the purchase_value of those
\* conversions, each counted once, however often the channel assists in one
\* chain.
C17_AssistsCountedOnce ==
    pc = "done" =>
        \A k \in 1..Len(channel_stats) :
            LET assisted == AssistedBy(preproc_chains_df, channel_stats[k].channel_name)
            IN  /\ channel_stats[k].nr_assisted_chains = Float(Cardinality(assisted), 1)
                /\ channel_stats[k].assisted_chains_value
                       = Float(ValueOf(preproc_chains_df, assisted), 1)

-----------------------------------------------------------------------------
(* the order column *)

\* the rows of channels_df of the conversion of chain c
RowsOf(c) ==
    {i \in 1..Len(channels_df) : channels_df[i].conversion_id = preproc_chains_df[c].conversion_id}

\* C18: for every chain of the final set (conversion_ids are unique) the order
\* values of its rows in channels_df are exactly 1..chain_len, one row each,
\* and the row with order k carries the k-th element of the chain.
C18_OrderIsPosition ==
    pc = "done" =>
        \A c \in 1..Len(preproc_chains_df) :
            LET chain == preproc_chains_df[c].chain
            IN  /\ Cardinality(RowsOf(c)) = Len(chain)
                /\ {channels_df[i].order : i \in RowsOf(c)} = 1..preproc_chains_df[c].chain_len
                /\ \A i \in RowsOf(c) : channels_df[i].chain = chain[channels_df[i].order]

\* two chains, the second one of several touchpoints: its rows follow the rows
\* of the first chain in channels_df
C18_Witness ==
    /\ pc = "done"
    /\ Len(preproc_chains_df) = 2
    /\ Len(preproc_chains_df[2].chain) >= 2
    /\ \E i \in RowsOf(2) : channels_df[i].order = 2 /\ channels_df[i].index > 2

-----------------------------------------------------------------------------
(* conservation over the rows of the output *)

\* C19: over the rows of the output of compute_channel_stats, the
\* nr_last_touch_chains add up to the number of chains, the
\* last_touch_chains_value add up to the total purchase_value of the chains,
\* and the nr_first_touch_chains add up to the number of chains of more than
\* one touchpoint.
C19_TouchSums ==
    pc = "done" =>
        LET n == Len(channel_stats)
            chains == 1..Len(preproc_chains_df)
        IN  /\ SumSeq([k \in 1..n |-> channel_stats[k].nr_last_touch_chains])
                   = Len(preproc_chains_df)
            /\ SumSeq([k \in 1..n |-> channel_stats[k].last_touch_chains_value])
                   = ValueOf(preproc_chains_df, chains)
            /\ SumSeq([k \in 1..n |-> channel_stats[k].nr_first_touch_chains])
                   = Cardinality({c \in chains : preproc_chains_df[c].chain_len > 1})

\* a mono-touch chain and a chain of several touchpoints ending on different
\* channels: two last touches on two rows, one first touch
C19_Witness ==
    /\ pc = "done"
    /\ Len(preproc_chains_df) = 2
    /\ preproc_chains_df[1].chain_len = 1
    /\ preproc_chains_df[2].chain_len > 1
    /\ \E k \in 1..Len(channel_stats), l \in 1..Len(channel_stats) :
          /\ k # l
          /\ channel_stats[k].nr_last_touch_chains = 1
          /\ channel_stats[l].nr_last_touch_chains = 1
          /\ channel_stats[l].nr_first_touch_chains = 0

-----------------------------------------------------------------------------
(* chain_merge twice *)

\* the chain data of a merged frame
ChainData(df) ==
    [i \in 1..Len(df) |->
        [customer_id    |-> df[i].customer_id,
         conversion_id  |-> df[i].conversion_id,
         first_event    |-> df[i].first_event,
         purchase_date  |-> df[i].purchase_date,
         purchase_value |-> df[i].purchase_value,
         chain          |-> df[i].chain]]

\* C20: chain_merge is idempotent on chain data: applied to its own output it
\* returns the same chains (conversion_id, first_event, purchase_date,
\* purchase_value, chain), in the same order and without an assertion failure.
C20_MergeIdempotent ==
    [][pc = "merged" /\ pc' # "merged"
          => /\ pc' = "remerged"
             /\ ChainData(merged_chains_df') = ChainData(merged_chains_df)]_vars

\* the first pass merged two chains and left two chains of one customer, and
\* the second pass has run on them
C20_Witness ==
    /\ pc = "remerged"
    /\ Len(merged_chains_df) < Len(chains_df)
    /\ \E i \in 1..Len(merged_chains_df), j \in 1..Len(merged_chains_df) :
          /\ i # j
          /\ merged_chains_df[i].customer_id = merged_chains_df[j].customer_id

-----------------------------------------------------------------------------
(* prepare_time_features *)

\* the year prepare_time_features is to give a date: the first year of
\* years_map whose [start_date, end_date] holds the date, 'oos' when none does
FirstYearOf(d) ==
    LET holding == {y \in 1..Len(years_map) :
                        years_map[y].start_date <= d /\ d <= years_map[y].end_date}
    IN  IF holding = {} THEN OOS ELSE years_map[MinOf(holding)].year

\* C15: prepare_time_features returns, for every input, exactly the input
\* rows whose week_end_date lies in the perimeter (both ends included), in
\* their order, each with the year_rolling of its date; it returns also when
\* a row of the perimeter maps to 'oos'.
C15_TimeFeaturesReturned ==
    [][pc = "mmm_start" /\ pc' # "mmm_start"
          => /\ pc' = "mmm_prepared"
             /\ LET kept == SelectSeq(preproc_data,
                                LAMBDA r : /\ mmm_perimeter[1] <= r.week_end_date
                                           /\ r.week_end_date <= mmm_perimeter[2])
                IN  /\ Len(preproc_data') = Len(kept)
                    /\ \A i \in 1..Len(kept) :
                          /\ preproc_data'[i].week_end_date = kept[i].week_end_date
                          /\ preproc_data'[i].spend = kept[i].spend
                          /\ preproc_data'[i].year_rolling = FirstYearOf(kept[i].week_end_date)
                          /\ preproc_data'[i].year_nr \in Nat]_vars

-----------------------------------------------------------------------------
(* the counts of a row of the output *)

\* C21: every channel label that occurs in a chain has exactly one row in the
\* output of compute_channel_stats, and in that row
\* nr_first_touch_chains <= nr_assisted_chains <= nr_chains <= nr_appearances
\* and nr_last_touch_chains <= nr_chains, nr_assisted_chains being a number
\* (0 for a channel that is in no non-final position), never a missing value.
C21_CountsOrdered ==
    pc = "done" =>
        /\ \A ch \in LabelsOf(preproc_chains_df) :
              Cardinality({k \in 1..Len(channel_stats) : channel_stats[k].channel_name = ch}) = 1
        /\ \A k \in 1..Len(channel_stats) :
              LET row == channel_stats[k]
              IN  /\ row.nr_assisted_chains.kind = "num"
                  /\ row.nr_assisted_chains.den = 1
                  /\ row.nr_first_touch_chains <= row.nr_assisted_chains.num
                  /\ row.nr_assisted_chains.num <= row.nr_chains
                  /\ row.nr_chains <= row.nr_appearances
                  /\ row.nr_last_touch_chains <= row.nr_chains

====
